---- MODULE Spec2Model ----
(***************************************************************************)
(* Model of the genealogy front end.                                       *)
(*                                                                         *)
(* Two generations of the details page live in the repository:             *)
(*   - the grouped-payload page: loadPersonDetails of src/unnamed/part_000 *)
(*     builds networkData from {parents, children, spouses, siblings};     *)
(*   - the graph-payload page: loadPersonDetails of                        *)
(*     src/static/js/details.js passes {nodes, links} on to                *)
(*     initializeVisualization of src/static/js/visualization.js.          *)
(* SpecGrouped runs the first, SpecDetails the second.                     *)
(***************************************************************************)
EXTENDS Integers, Sequences, FiniteSets, TLC

VARIABLES
    pc,             \* position of the promise chain of loadPersonDetails
    loading,        \* loading indicator shown
    personVisible,  \* person panel (detailsContainer / person-container) shown
    errorVisible,   \* error panel shown
    errorOrigin,    \* the step whose exception reached .catch ("none" if none)
    personName,     \* text of the personName element
    familyData,     \* the /api/family payload the chain received
    sections,       \* the four relation sections as rendered
    pushedNodes,    \* networkData.nodes as pushed, before deduplication
    networkData,    \* the graph handed to initializeVisualization
    vizCalls,       \* number of calls of initializeVisualization
    vizLinks,       \* the link objects the adapter renders as lines
    simulation,     \* the page-scoped force simulation
    vizThrew,       \* initializeVisualization ended by throwing
    hovered,        \* index of the node under the pointer, 0 if none
    uncaught,       \* an exception left a handler uncaught
    events,         \* the steps the promise chain has run, in order
    dateCase,       \* one application of a formatDate, and of it to its result
    url,            \* query and page parameters of the address bar
    searchPc,       \* "unloaded" until the search page has run its scripts
    inFlight,       \* the /api/search requests that have not settled
    searches,       \* number of searches issued so far
    lastIssued,     \* query and page of the search issued last
    display,        \* what the results area shows
    pagination,     \* the pagination controls as rendered
    currentQuery,   \* search.js: currentQuery
    currentPage,    \* search.js: currentPage
    totalResults,   \* search.js: totalResults
    linkOpacity,    \* stroke-opacity of every rendered line, in percent
    outlined,       \* indexes of the circles that carry the highlight stroke
    dragSim,        \* the simulation the drag handlers closed over
    dragging,       \* the active drag gesture: its node (0 if none), phase, points
    pins,           \* fx, fy of every node: <<>> for null, <<x, y>> when pinned
    surface,        \* the adapter that ran last and the size it read of its container
    svg,            \* width and height of the svg in the container, <<>> without one
    positions,      \* x, y of every node: <<>> before the first tick
    fills,          \* the fill colour of every circle
    batchInFlight,  \* the POST /api/batch/start requests that have not settled
    batchSettled,   \* the request that settled last, its answer and what followed
    windowCase      \* one application of a createPagination to a page and a total

vars == <<pc, loading, personVisible, errorVisible, errorOrigin, personName,
          familyData, sections, pushedNodes, networkData, vizCalls, vizLinks,
          simulation, vizThrew, hovered, uncaught, events, dateCase, url,
          searchPc, inFlight, searches, lastIssued, display, pagination,
          currentQuery, currentPage, totalResults, linkOpacity, outlined, dragSim,
          dragging, pins, surface, svg, positions, fills, batchInFlight,
          batchSettled, windowCase>>

\* the state of the date formatting, of the search page and of the pointer
\* gestures on the graph
dateVars == <<dateCase>>
searchVars == <<url, searchPc, inFlight, searches, lastIssued, display, pagination,
                currentQuery, currentPage, totalResults>>
gestureVars == <<linkOpacity, outlined, dragSim, dragging, pins>>

\* the state of the display surface, of the batch requests and of the page window
layoutVars == <<surface, svg, positions, fills>>
batchVars == <<batchInFlight, batchSettled>>
windowVars == <<windowCase>>

(***************************************************************************)
(* Bounds and input domains                                                *)
(***************************************************************************)
MaxRelatives == 3   \* entries of a grouped payload, over its four arrays
MaxNodes == 2       \* nodes of a graph payload
MaxLinks == 1       \* links of a graph payload

\* the page's entity id (template variable entityId) and the ids a payload uses
entityId == "Q9682"
Ids == {"Q9682", "Q1", "Q2", "Q3"}
NodeIds == {"Q9682", "Q1"}     \* ids of the nodes of a graph payload
LinkIds == NodeIds \cup {"Q2"}  \* ids its links name: Q2 is never a node
LinkTypes == {"parent", "spouse", "sibling"}
Kinds == {"self", "parent", "child", "spouse", "sibling"}

\* a person of a relation array: one record per id, and a second, differently
\* named record for Q1
PersonRefs ==
    { [id |-> "Q9682", name |-> "Elizabeth II"], [id |-> "Q1", name |-> "George VI"],
      [id |-> "Q1", name |-> "Albert"], [id |-> "Q2", name |-> "Philip"],
      [id |-> "Q3", name |-> "Margaret"] }
GraphNodes == [id : NodeIds, depth : 0..1]
RelationEdges == [source : LinkIds, target : LinkIds, type : LinkTypes]

NoGraph == [nodes |-> <<>>, links |-> <<>>]
NoSections == [rendered |-> FALSE, parents |-> <<>>, children |-> <<>>,
               spouses |-> <<>>, siblings |-> <<>>]

\* every grouped payload with at most MaxRelatives entries over the four arrays
GroupedPayloads ==
    UNION { { [form |-> "grouped",
               parents  |-> SubSeq(e, 1, c[1]),
               children |-> SubSeq(e, c[1] + 1, c[2]),
               spouses  |-> SubSeq(e, c[2] + 1, c[3]),
               siblings |-> SubSeq(e, c[3] + 1, c[4])] : e \in [1..c[4] -> PersonRefs] }
            : c \in { d \in [1..4 -> 0..MaxRelatives] :
                          d[1] <= d[2] /\ d[2] <= d[3] /\ d[3] <= d[4] } }

SeqsUpTo(S, n) == UNION { [1..k -> S] : k \in 0..n }

\* every graph payload with at most MaxNodes nodes and MaxLinks links
GraphPayloads ==
    { [form |-> "graph", nodes |-> ns, links |-> ls] :
          ns \in SeqsUpTo(GraphNodes, MaxNodes), ls \in SeqsUpTo(RelationEdges, MaxLinks) }

(***************************************************************************)
(* Grouped-payload page: the builder inside loadPersonDetails (part_000)   *)
(***************************************************************************)
RECURSIVE Concat(_)
Concat(ss) == IF ss = <<>> THEN <<>> ELSE Head(ss) \o Concat(Tail(ss))

\* networkData.nodes.push({id, name, type}) for every entry of one array
RelationNodes(arr, kind) ==
    [i \in 1..Len(arr) |-> [id |-> arr[i].id, name |-> arr[i].name, type |-> kind]]

SelfNode(name) == [id |-> entityId, name |-> name, type |-> "self"]

\* the nodes in the order the builder pushes them
BuildNodes(fd, name) ==
    <<SelfNode(name)>> \o RelationNodes(fd.parents, "parent")
                       \o RelationNodes(fd.children, "child")
                       \o RelationNodes(fd.spouses, "spouse")
                       \o RelationNodes(fd.siblings, "sibling")

ParentLinks(fd) ==
    [i \in 1..Len(fd.parents) |->
        [source |-> fd.parents[i].id, target |-> entityId, type |-> "parent"]]

\* variant: the child edge written child->self
ChildLinksReversed(fd) ==
    [i \in 1..Len(fd.children) |->
        [source |-> fd.children[i].id, target |-> entityId, type |-> "parent"]]

\* lines 64-76: self->child, typed parent
ChildLinks(fd) ==
    [i \in 1..Len(fd.children) |->
        [source |-> entityId, target |-> fd.children[i].id, type |-> "parent"]]

SpouseLinks(fd) ==
    [i \in 1..Len(fd.spouses) |->
        [source |-> entityId, target |-> fd.spouses[i].id, type |-> "spouse"]]

\* variant: the fallback edge added whether or not a parent was linked
SiblingLinksBoth(fd, sibling) ==
    [j \in 1..Len(fd.parents) |->
        [source |-> fd.parents[j].id, target |-> sibling.id, type |-> "parent"]]
    \o <<[source |-> entityId, target |-> sibling.id, type |-> "sibling"]>>

\* lines 101-119: the links one sibling adds, one per parent, else the
\* fallback to the centre
SiblingLinks(fd, sibling) ==
    LET toParents == [j \in 1..Len(fd.parents) |->
                        [source |-> fd.parents[j].id, target |-> sibling.id,
                         type |-> "parent"]]
        linkedToParent == Len(fd.parents) > 0
    IN  IF linkedToParent
        THEN toParents
        ELSE <<[source |-> entityId, target |-> sibling.id, type |-> "sibling"]>>

BuildLinks(fd) ==
    ParentLinks(fd) \o ChildLinks(fd) \o SpouseLinks(fd)
        \o Concat([k \in 1..Len(fd.siblings) |-> SiblingLinks(fd, fd.siblings[k])])

\* Map.prototype.set: an existing key keeps its place and takes the new value
MapSet(m, node) ==
    IF \E i \in 1..Len(m) : m[i].id = node.id
    THEN [i \in 1..Len(m) |-> IF m[i].id = node.id THEN node ELSE m[i]]
    ELSE Append(m, node)

RECURSIVE NewMap(_, _)
NewMap(m, nodes) ==
    IF nodes = <<>> THEN m ELSE NewMap(MapSet(m, Head(nodes)), Tail(nodes))

\* variant: an id pushed more than once is dropped altogether
UniqueNodesDropRepeated(nodes) ==
    LET kept == NewMap(<<>>, nodes)
    IN  SelectSeq(kept, LAMBDA n : Cardinality({i \in 1..Len(nodes) : nodes[i].id = n.id}) = 1)

\* Array.from(new Map(nodes.map(node => [node.id, node])).values())
UniqueNodes(nodes) == NewMap(<<>>, nodes)

\* displayRelationSection (part_000): the ids shown, each once, in array order
RECURSIVE ShownIds(_, _)
ShownIds(shown, arr) ==
    IF arr = <<>> THEN shown
    ELSE IF \E i \in 1..Len(shown) : shown[i] = Head(arr).id
         THEN ShownIds(shown, Tail(arr))
         ELSE ShownIds(Append(shown, Head(arr).id), Tail(arr))

RelationKeys == {"parents", "children", "spouses", "siblings"}

\* a grouped payload with the arrays of `gone` left out
Without(fd, gone) == [k \in (DOMAIN fd) \ gone |-> fd[k]]

\* grouped payloads in which some of the four arrays are absent
SparsePayloads ==
    {Without(fd, gone) :
        fd \in {g \in GroupedPayloads :
                   Len(g.parents) + Len(g.children) + Len(g.spouses)
                       + Len(g.siblings) <= 1},
        gone \in (SUBSET RelationKeys) \ {{}}}

\* the JSON body of a non-2xx answer, {error: ...}
ErrorBody == [form |-> "error"]

\* displayRelationSection (part_000) line 235: !relations || relations.length === 0
Relations(fd, key) == IF key \in DOMAIN fd THEN fd[key] ELSE <<>>

\* familyData.parents.forEach and its three successors (part_000 lines 48-120)
\* read .forEach of undefined when an array is absent
BuildThrows(fd) == ~(RelationKeys \subseteq DOMAIN fd)

\* displayFamilyRelations (part_000)
displayFamilyRelations_grouped(fd) ==
    [rendered |-> TRUE,
     parents  |-> ShownIds(<<>>, Relations(fd, "parents")),
     children |-> ShownIds(<<>>, Relations(fd, "children")),
     spouses  |-> ShownIds(<<>>, Relations(fd, "spouses")),
     siblings |-> ShownIds(<<>>, Relations(fd, "siblings"))]

\* index of the first node with this id (Array.prototype.find), 0 for undefined
Find(nodes, id) ==
    IF \E i \in 1..Len(nodes) : nodes[i].id = id
    THEN CHOOSE i \in 1..Len(nodes) :
             /\ nodes[i].id = id
             /\ \A j \in 1..(i - 1) : nodes[j].id # id
    ELSE 0

\* a link whose source or target is no node object
Dangling(l) == l.source = 0 \/ l.target = 0

\* initializeVisualization (part_002): d3.forceLink(data.links).id(d => d.id)
\* replaces each link's ids by the node objects and throws on an id it misses
initializeVisualization_grouped(data) ==
    LET links == [k \in 1..Len(data.links) |->
                    [source |-> Find(data.nodes, data.links[k].source),
                     target |-> Find(data.nodes, data.links[k].target),
                     type   |-> data.links[k].type]]
    IN  [links |-> links, threw |-> \E k \in 1..Len(links) : Dangling(links[k])]

(***************************************************************************)
(* Grouped-payload page: the promise chain of loadPersonDetails (part_000) *)
(***************************************************************************)
Init ==
    /\ pc = "idle"
    /\ loading = FALSE
    /\ personVisible = FALSE
    /\ errorVisible = FALSE
    /\ errorOrigin = "none"
    /\ personName = ""
    /\ familyData = [form |-> "none"]
    /\ sections = NoSections
    /\ pushedNodes = <<>>
    /\ networkData = NoGraph
    /\ vizCalls = 0
    /\ vizLinks = <<>>
    /\ simulation = "undefined"
    /\ vizThrew = FALSE
    /\ hovered = 0
    /\ uncaught = FALSE
    /\ events = <<>>
    /\ dateCase = [fn |-> "none"]
    /\ url = [query |-> <<>>, page |-> 0]
    /\ searchPc = "unloaded"
    /\ inFlight = {}
    /\ searches = 0
    /\ lastIssued = [query |-> <<>>, page |-> 0]
    /\ display = [kind |-> "none"]
    /\ pagination = [total |-> 0]
    /\ currentQuery = <<>>
    /\ currentPage = 1
    /\ totalResults = 0
    /\ linkOpacity = <<>>
    /\ outlined = {}
    /\ dragSim = "undefined"
    /\ dragging = [node |-> 0, phase |-> "idle", from |-> <<>>, at |-> <<>>]
    /\ pins = <<>>
    /\ surface = [adapter |-> "none", width |-> 0, height |-> 0]
    /\ svg = <<>>
    /\ positions = <<>>
    /\ fills = <<>>
    /\ batchInFlight = {}
    /\ batchSettled = [from |-> "none"]
    /\ windowCase = [fn |-> "none"]

\* the last entry of the log, "" for the empty log
Last(log) == IF log = <<>> THEN "" ELSE log[Len(log)]

\* what a fetch and its response.json() can come to: a 2xx answer with a JSON
\* body, another status with a JSON body, or a rejection (connection error,
\* body that is no JSON)
Responses == {"ok", "notOk", "rejected"}

\* the graph-form payloads the grouped page is tried with
GraphForms_grouped ==
    {g \in GraphPayloads : Len(g.nodes) <= 1 /\ Len(g.links) = 0}

\* lines 9-15: show the loading indicator, hide the container, fetch the details
loadPersonDetails_grouped ==
    /\ pc = "idle"
    /\ pc' = "detailsFetch"
    /\ loading' = TRUE
    /\ personVisible' = FALSE
    /\ events' = Append(events, "detailRequest")
    /\ UNCHANGED <<errorVisible, errorOrigin, personName, familyData, sections,
                   pushedNodes, networkData, vizCalls, vizLinks, simulation,
                   vizThrew, hovered, uncaught>>
    /\ UNCHANGED <<dateVars, windowVars, layoutVars, batchVars, searchVars, gestureVars>>

\* line 16: response => response.json(), whatever the status of the response
DetailsJson_grouped ==
    /\ pc = "detailsFetch"
    /\ \E response \in Responses :
          IF response = "rejected"
          THEN /\ pc' = "catch"
               /\ errorOrigin' = "details"
               /\ events' = Append(events, "detailRejected")
          ELSE /\ pc' = "personData"
               /\ events' = Append(events, IF response = "ok" THEN "detailResponse"
                                           ELSE "detailResponseNotOk")
               /\ UNCHANGED errorOrigin
    /\ UNCHANGED <<loading, personVisible, errorVisible, personName, familyData,
                   sections, pushedNodes, networkData, vizCalls, vizLinks,
                   simulation, vizThrew, hovered, uncaught>>
    /\ UNCHANGED <<dateVars, windowVars, layoutVars, batchVars, searchVars, gestureVars>>

\* displayPersonDetails (part_000): personName.innerText = person.name || 'Unknown'
displayPersonDetails_grouped(name) == IF name = "" THEN "Unknown" ELSE name

\* lines 17-27: null data throws, else display the person and fetch the family;
\* the body of a non-2xx answer is an object without a name
PersonDataThen_grouped ==
    /\ pc = "personData"
    /\ \E personData \in IF Last(events) = "detailResponseNotOk" THEN {""}
                         ELSE {"null", "", "Elizabeth II"} :
          IF personData = "null"
          THEN /\ pc' = "catch"
               /\ errorOrigin' = "details"
               /\ events' = Append(events, "detailFailed")
               /\ UNCHANGED personName
          ELSE /\ pc' = "familyFetch"
               /\ personName' = displayPersonDetails_grouped(personData)
               /\ events' = events \o <<"detailDisplayed", "familyRequest">>
               /\ UNCHANGED errorOrigin
    /\ UNCHANGED <<loading, personVisible, errorVisible, familyData, sections,
                   pushedNodes, networkData, vizCalls, vizLinks, simulation,
                   vizThrew, hovered, uncaught>>
    /\ UNCHANGED <<dateVars, windowVars, layoutVars, batchVars, searchVars, gestureVars>>

\* line 28: response => response.json() of the family response
FamilyJson_grouped ==
    /\ pc = "familyFetch"
    /\ \E response \in Responses :
          IF response = "rejected"
          THEN /\ pc' = "catch"
               /\ errorOrigin' = "family"
               /\ events' = Append(events, "familyRejected")
          ELSE /\ pc' = "familyData"
               /\ events' = Append(events, IF response = "ok" THEN "familyResponse"
                                           ELSE "familyResponseNotOk")
               /\ UNCHANGED errorOrigin
    /\ UNCHANGED <<loading, personVisible, errorVisible, personName, familyData,
                   sections, pushedNodes, networkData, vizCalls, vizLinks,
                   simulation, vizThrew, hovered, uncaught>>
    /\ UNCHANGED <<dateVars, windowVars, layoutVars, batchVars, searchVars, gestureVars>>

\* lines 29-133: render the sections, build and deduplicate the graph when d3
\* is loaded, hand it to the adapter, then reveal the container
FamilyDataThen_grouped ==
    /\ pc = "familyData"
    /\ \E fd \in IF Last(events) = "familyResponseNotOk" THEN {ErrorBody}
                 ELSE GroupedPayloads \cup SparsePayloads \cup GraphForms_grouped,
          d3Loaded \in BOOLEAN :
          /\ familyData' = fd
          /\ sections' = displayFamilyRelations_grouped(fd)
          /\ IF d3Loaded /\ BuildThrows(fd)
             THEN /\ pc' = "catch"
                  /\ errorOrigin' = "build"
                  /\ events' = events \o <<"sectionsRendered", "familyFailed">>
                  /\ UNCHANGED <<loading, personVisible, pushedNodes, networkData,
                                 vizCalls, vizLinks, simulation, vizThrew>>
             ELSE IF d3Loaded
             THEN LET pushed == BuildNodes(fd, personName)
                      graph  == [nodes |-> UniqueNodes(pushed),
                                 links |-> BuildLinks(fd)]
                      viz    == initializeVisualization_grouped(graph)
                  IN  /\ pushedNodes' = pushed
                      /\ networkData' = graph
                      /\ vizCalls' = vizCalls + 1
                      /\ vizLinks' = viz.links
                      /\ vizThrew' = viz.threw
                      /\ IF viz.threw
                         THEN /\ pc' = "catch"
                              /\ errorOrigin' = "viz"
                              /\ events' = events \o <<"sectionsRendered",
                                                       "adapterCall", "familyFailed">>
                              /\ UNCHANGED <<loading, personVisible, simulation>>
                         ELSE /\ pc' = "settled"
                              /\ simulation' = "running"
                              /\ loading' = FALSE
                              /\ personVisible' = TRUE
                              /\ events' = events \o <<"sectionsRendered",
                                                       "adapterCall">>
                              /\ UNCHANGED errorOrigin
             ELSE /\ pc' = "settled"
                  /\ loading' = FALSE
                  /\ personVisible' = TRUE
                  /\ events' = Append(events, "sectionsRendered")
                  /\ UNCHANGED <<pushedNodes, networkData, vizCalls, vizLinks,
                                 simulation, vizThrew, errorOrigin>>
    /\ UNCHANGED <<errorVisible, personName, hovered, uncaught>>
    /\ UNCHANGED <<dateVars, windowVars, layoutVars, batchVars, searchVars, gestureVars>>

\* variant: the catch handler leaves the loading indicator alone
Catch_groupedKeepsIndicator ==
    /\ pc = "catch"
    /\ pc' = "settled"
    /\ errorVisible' = personVisible
    /\ personVisible' = FALSE
    /\ events' = Append(events, "catch")
    /\ UNCHANGED <<loading, errorOrigin, personName, familyData, sections,
                   pushedNodes, networkData, vizCalls, vizLinks, simulation,
                   vizThrew, hovered, uncaught>>
    /\ UNCHANGED <<dateVars, windowVars, layoutVars, batchVars, searchVars, gestureVars>>

\* lines 134-147: hide the indicator and replace the container's content by the
\* error; the container keeps the display it had
Catch_grouped ==
    /\ pc = "catch"
    /\ pc' = "settled"
    /\ loading' = FALSE
    /\ errorVisible' = personVisible
    /\ personVisible' = FALSE
    /\ events' = Append(events, "catch")
    /\ UNCHANGED <<errorOrigin, personName, familyData, sections, pushedNodes,
                   networkData, vizCalls, vizLinks, simulation, vizThrew, hovered,
                   uncaught>>
    /\ UNCHANGED <<dateVars, windowVars, layoutVars, batchVars, searchVars, gestureVars>>

NextGrouped ==
    \/ loadPersonDetails_grouped
    \/ DetailsJson_grouped
    \/ PersonDataThen_grouped
    \/ FamilyJson_grouped
    \/ FamilyDataThen_grouped
    \/ Catch_grouped

SpecGrouped == Init /\ [][NextGrouped]_vars


(***************************************************************************)
(* Graph-payload page: details.js and visualization.js                     *)
(***************************************************************************)
\* familyData.nodes.find(node => node.depth === 0), 0 for undefined
CentralPerson(nodes) ==
    IF \E i \in 1..Len(nodes) : nodes[i].depth = 0
    THEN CHOOSE i \in 1..Len(nodes) :
             /\ nodes[i].depth = 0
             /\ \A j \in 1..(i - 1) : nodes[j].depth # 0
    ELSE 0

\* variant: parents and children exchanged
ClassifyLinkSwapped(nodes, c, link) ==
    LET cid == nodes[c].id
        relatedId == IF link.source = cid THEN link.target ELSE link.source
        relatedPerson == Find(nodes, relatedId)
        bucket ==
            IF link.source # cid /\ link.target # cid THEN "none"
            ELSE IF relatedPerson = 0 THEN "none"
            ELSE IF link.type = "parent"
                 THEN (IF link.source = cid THEN "parents" ELSE "children")
            ELSE IF link.type = "spouse" THEN "spouses"
            ELSE IF link.type = "sibling" THEN "siblings"
            ELSE "none"
    IN  [bucket |-> bucket, person |-> relatedPerson]

\* details.js lines 181-206, one link: the bucket the link feeds ("none" when
\* it is skipped) and the node it puts there
ClassifyLink(nodes, c, link) ==
    LET cid == nodes[c].id
        relatedId == IF link.source = cid THEN link.target ELSE link.source
        relatedPerson == Find(nodes, relatedId)
        bucket ==
            IF link.source # cid /\ link.target # cid THEN "none"
            ELSE IF relatedPerson = 0 THEN "none"
            ELSE IF link.type = "parent"
                 THEN (IF link.target = cid THEN "parents" ELSE "children")
            ELSE IF link.type = "spouse" THEN "spouses"
            ELSE IF link.type = "sibling" THEN "siblings"
            ELSE "none"
    IN  [bucket |-> bucket, person |-> relatedPerson]

\* the cards of one section: for every node, how many cards show it.  The sort
\* of displayRelationSection reorders the cards and leaves these counts alone.
Section(nodes, c, links, bucket) ==
    [r \in 1..Len(nodes) |->
        Cardinality({k \in 1..Len(links) :
            ClassifyLink(nodes, c, links[k]) = [bucket |-> bucket, person |-> r]})]

\* variant: no return at line 171, so the first link reads centralPerson.id of
\* undefined and throws
displayFamilyRelationsUnguarded(fd) ==
    LET c == CentralPerson(fd.nodes)
    IN  IF "nodes" \notin DOMAIN fd
        THEN [threw |-> TRUE, sections |-> NoSections]
        ELSE IF c = 0
        THEN [threw |-> Len(fd.links) > 0, sections |-> NoSections]
        ELSE [threw |-> FALSE,
              sections |-> [rendered |-> TRUE,
                            parents  |-> Section(fd.nodes, c, fd.links, "parents"),
                            children |-> Section(fd.nodes, c, fd.links, "children"),
                            spouses  |-> Section(fd.nodes, c, fd.links, "spouses"),
                            siblings |-> Section(fd.nodes, c, fd.links, "siblings")]]

\* displayFamilyRelations (details.js): familyData.nodes.find throws when the
\* payload has no nodes; without a central node it returns before rendering
\* anything
displayFamilyRelations(fd) ==
    LET c == CentralPerson(fd.nodes)
    IN  IF "nodes" \notin DOMAIN fd
        THEN [threw |-> TRUE, sections |-> NoSections]
        ELSE IF c = 0
        THEN [threw |-> FALSE, sections |-> NoSections]
        ELSE [threw |-> FALSE,
              sections |-> [rendered |-> TRUE,
                            parents  |-> Section(fd.nodes, c, fd.links, "parents"),
                            children |-> Section(fd.nodes, c, fd.links, "children"),
                            spouses  |-> Section(fd.nodes, c, fd.links, "spouses"),
                            siblings |-> Section(fd.nodes, c, fd.links, "siblings")]]

\* initializeVisualization (visualization.js): lines 56-64 map every link to
\* {source: nodes.find(..), target: nodes.find(..), type}, lines 112-119 append
\* one line per mapped link, and d3.forceLink (lines 194-204) throws on a link
\* whose source or target is no node object
initializeVisualization(data) ==
    LET links == [k \in 1..Len(data.links) |->
                    [source |-> Find(data.nodes, data.links[k].source),
                     target |-> Find(data.nodes, data.links[k].target),
                     type   |-> data.links[k].type]]
    IN  [links |-> links, threw |-> \E k \in 1..Len(links) : Dangling(links[k])]

MaxCalls == 2

\* where a node can lie and the pointer can be
Points == {<<20, 20>>, <<50, 40>>}

NoGesture == [node |-> 0, phase |-> "idle", from |-> <<>>, at |-> <<>>]

\* lines 112-131 of a call: every line is appended without stroke-opacity
\* (opaque), every circle with the default stroke and no pin, and
\* drag(simulation) at line 131 closes over the global as it is then: undefined
\* on the first call, the simulation of an earlier call later on
Rendered(data, viz) ==
    /\ linkOpacity' = [k \in 1..Len(viz.links) |-> 100]
    /\ outlined' = {}
    /\ pins' = [i \in 1..Len(data.nodes) |-> <<>>]
    /\ dragging' = NoGesture
    /\ dragSim' = IF simulation = "undefined" THEN "undefined" ELSE "stale"

\* the grouped-form payloads the graph page is tried with
GroupedForms ==
    {g \in GroupedPayloads :
        Len(g.parents) + Len(g.children) + Len(g.spouses) + Len(g.siblings) <= 1}

\* details.js lines 40-47
loadPersonDetails ==
    /\ pc = "idle"
    /\ pc' = "detailsFetch"
    /\ loading' = TRUE
    /\ personVisible' = FALSE
    /\ errorVisible' = FALSE
    /\ events' = Append(events, "detailRequest")
    /\ UNCHANGED <<errorOrigin, personName, familyData, sections, pushedNodes,
                   networkData, vizCalls, vizLinks, simulation, vizThrew, hovered,
                   uncaught>>
    /\ UNCHANGED <<dateVars, windowVars, layoutVars, batchVars, searchVars, gestureVars>>

\* details.js lines 48-53: a connection error rejects, a non-2xx response throws
DetailsResponse ==
    /\ pc = "detailsFetch"
    /\ \E response \in Responses :
          IF response = "ok"
          THEN /\ pc' = "personData"
               /\ events' = Append(events, "detailResponse")
               /\ UNCHANGED errorOrigin
          ELSE /\ pc' = "catch"
               /\ errorOrigin' = "details"
               /\ events' = Append(events, IF response = "notOk"
                                           THEN "detailResponseNotOk"
                                           ELSE "detailRejected")
    /\ UNCHANGED <<loading, personVisible, errorVisible, personName, familyData,
                   sections, pushedNodes, networkData, vizCalls, vizLinks,
                   simulation, vizThrew, hovered, uncaught>>
    /\ UNCHANGED <<dateVars, windowVars, layoutVars, batchVars, searchVars, gestureVars>>

\* details.js lines 54-60, with displayPersonDetails (lines 92-162): a null body
\* throws on person.name, else the person panel is shown and the family fetched
PersonDataThen ==
    /\ pc = "personData"
    /\ \E personData \in {"null", "", "Elizabeth II"} :
          IF personData = "null"
          THEN /\ pc' = "catch"
               /\ errorOrigin' = "details"
               /\ events' = Append(events, "detailFailed")
               /\ UNCHANGED <<personName, personVisible>>
          ELSE /\ pc' = "familyFetch"
               /\ personName' = IF personData = "" THEN "Unknown Name" ELSE personData
               /\ personVisible' = TRUE
               /\ events' = events \o <<"detailDisplayed", "familyRequest">>
               /\ UNCHANGED errorOrigin
    /\ UNCHANGED <<loading, errorVisible, familyData, sections, pushedNodes,
                   networkData, vizCalls, vizLinks, simulation, vizThrew, hovered,
                   uncaught>>
    /\ UNCHANGED <<dateVars, windowVars, layoutVars, batchVars, searchVars, gestureVars>>

\* details.js lines 61-66
FamilyResponse ==
    /\ pc = "familyFetch"
    /\ \E response \in Responses :
          IF response = "ok"
          THEN /\ pc' = "familyData"
               /\ events' = Append(events, "familyResponse")
               /\ UNCHANGED errorOrigin
          ELSE /\ pc' = "catch"
               /\ errorOrigin' = "family"
               /\ events' = Append(events, IF response = "notOk"
                                           THEN "familyResponseNotOk"
                                           ELSE "familyRejected")
    /\ UNCHANGED <<loading, personVisible, errorVisible, personName, familyData,
                   sections, pushedNodes, networkData, vizCalls, vizLinks,
                   simulation, vizThrew, hovered, uncaught>>
    /\ UNCHANGED <<dateVars, windowVars, layoutVars, batchVars, searchVars, gestureVars>>

\* details.js lines 67-75: render the sections, then hand the payload itself to
\* initializeVisualization
FamilyDataThen ==
    /\ pc = "familyData"
    /\ \E fd \in GraphPayloads \cup GroupedForms :
          LET shown == displayFamilyRelations(fd)
              viz   == initializeVisualization(fd)
          IN  /\ familyData' = fd
              /\ IF shown.threw
                 THEN /\ pc' = "catch"
                      /\ errorOrigin' = "display"
                      /\ events' = Append(events, "familyFailed")
                      /\ UNCHANGED <<sections, networkData, vizCalls, vizLinks,
                                     simulation, vizThrew, gestureVars>>
                 ELSE /\ sections' = shown.sections
                      /\ networkData' = [nodes |-> fd.nodes, links |-> fd.links]
                      /\ vizCalls' = vizCalls + 1
                      /\ vizLinks' = viz.links
                      /\ vizThrew' = viz.threw
                      /\ Rendered(fd, viz)
                      /\ IF viz.threw
                         THEN /\ pc' = "catch"
                              /\ errorOrigin' = "viz"
                              /\ events' = events \o <<"sectionsRendered",
                                                       "adapterCall", "familyFailed">>
                              /\ UNCHANGED simulation
                         ELSE /\ pc' = "finally"
                              /\ simulation' = "running"
                              /\ events' = events \o <<"sectionsRendered",
                                                       "adapterCall">>
                              /\ UNCHANGED errorOrigin
    /\ UNCHANGED <<loading, personVisible, errorVisible, personName, pushedNodes,
                   hovered, uncaught>>
    /\ UNCHANGED <<dateVars, windowVars, layoutVars, batchVars, searchVars>>

\* details.js lines 76-81
Catch ==
    /\ pc = "catch"
    /\ pc' = "finally"
    /\ errorVisible' = TRUE
    /\ events' = Append(events, "catch")
    /\ UNCHANGED <<loading, personVisible, errorOrigin, personName, familyData,
                   sections, pushedNodes, networkData, vizCalls, vizLinks,
                   simulation, vizThrew, hovered, uncaught>>
    /\ UNCHANGED <<dateVars, windowVars, layoutVars, batchVars, searchVars, gestureVars>>

\* details.js lines 82-85
Finally ==
    /\ pc = "finally"
    /\ pc' = "settled"
    /\ loading' = FALSE
    /\ events' = Append(events, "finally")
    /\ UNCHANGED <<personVisible, errorVisible, errorOrigin, personName,
                   familyData, sections, pushedNodes, networkData, vizCalls,
                   vizLinks, simulation, vizThrew, hovered, uncaught>>
    /\ UNCHANGED <<dateVars, windowVars, layoutVars, batchVars, searchVars, gestureVars>>

NextDetails ==
    \/ loadPersonDetails
    \/ DetailsResponse
    \/ PersonDataThen
    \/ FamilyResponse
    \/ FamilyDataThen
    \/ Catch
    \/ Finally

SpecDetails == Init /\ [][NextDetails]_vars

(***************************************************************************)
(* The layout adapter of visualization.js on its own: one call, then the   *)
(* pointer and the simulation drive its handlers                           *)
(***************************************************************************)
\* visualization.js lines 11-281, called with any graph payload, between two
\* gestures of the pointer
CallInitializeVisualization ==
    /\ vizCalls < MaxCalls
    /\ hovered = 0
    /\ dragging.node = 0
    /\ \E data \in GraphPayloads :
          LET viz == initializeVisualization(data)
          IN  /\ familyData' = data
              /\ networkData' = [nodes |-> data.nodes, links |-> data.links]
              /\ vizCalls' = vizCalls + 1
              /\ vizLinks' = viz.links
              /\ vizThrew' = viz.threw
              /\ simulation' = IF viz.threw THEN simulation ELSE "running"
              /\ Rendered(data, viz)
    /\ hovered' = 0
    /\ UNCHANGED <<pc, loading, personVisible, errorVisible, errorOrigin,
                   personName, sections, pushedNodes, uncaught>>
    /\ UNCHANGED <<events, dateVars, windowVars, layoutVars, batchVars, searchVars>>

\* line 158 for link k while node d is hovered:
\* l.source.id === d.id || l.target.id === d.id throws on a link whose source
\* is undefined, or whose target is undefined once the source is another node
HoverThrowsAt(d, k) ==
    \/ vizLinks[k].source = 0
    \/ /\ networkData.nodes[vizLinks[k].source].id # networkData.nodes[d].id
       /\ vizLinks[k].target = 0

HoverThrows(d) == \E k \in 1..Len(vizLinks) : HoverThrowsAt(d, k)

\* line 158: the stroke-opacity, in percent, of a link that can be read
HoverOpacity(d, k) ==
    IF \/ networkData.nodes[vizLinks[k].source].id = networkData.nodes[d].id
       \/ networkData.nodes[vizLinks[k].target].id = networkData.nodes[d].id
    THEN 100 ELSE 20

\* lines 132-160: mouseover on the circle of node d.  selection.style visits
\* the lines in order and stops at the first that throws
MouseOver ==
    /\ vizCalls > 0
    /\ hovered = 0
    /\ dragging.node = 0
    /\ \E d \in 1..Len(networkData.nodes) :
          /\ hovered' = d
          /\ outlined' = outlined \cup {d}
          /\ linkOpacity' =
                [k \in 1..Len(vizLinks) |->
                    IF \E j \in 1..k : HoverThrowsAt(d, j)
                    THEN linkOpacity[k]
                    ELSE HoverOpacity(d, k)]
          /\ uncaught' = (uncaught \/ HoverThrows(d))
    /\ UNCHANGED <<pc, loading, personVisible, errorVisible, errorOrigin,
                   personName, familyData, sections, pushedNodes, networkData,
                   vizCalls, vizLinks, simulation, vizThrew>>
    /\ UNCHANGED <<dragSim, dragging, pins>>
    /\ UNCHANGED <<events, dateVars, windowVars, layoutVars, batchVars, searchVars>>

\* lines 161-174: mouseout of the hovered circle
MouseOut ==
    /\ vizCalls > 0
    /\ hovered # 0
    /\ hovered' = 0
    /\ outlined' = outlined \ {hovered}
    /\ linkOpacity' = [k \in 1..Len(vizLinks) |-> 100]
    /\ UNCHANGED <<pc, loading, personVisible, errorVisible, errorOrigin,
                   personName, familyData, sections, pushedNodes, networkData,
                   vizCalls, vizLinks, simulation, vizThrew, uncaught>>
    /\ UNCHANGED <<dragSim, dragging, pins>>
    /\ UNCHANGED <<events, dateVars, windowVars, layoutVars, batchVars, searchVars>>

\* dragstarted (lines 289-293) on node i lying at some point: event.active is 0
\* for the only gesture, so simulation.alphaTarget is read first and throws
\* when the handlers closed over undefined; whether d3 goes on with a gesture
\* whose start listener threw is left open
DragStart ==
    /\ vizCalls > 0
    /\ hovered = 0
    /\ dragging.node = 0
    /\ \E i \in 1..Len(networkData.nodes), at \in Points :
          IF dragSim = "undefined"
          THEN /\ uncaught' = TRUE
               /\ \E goesOn \in BOOLEAN :
                     dragging' = IF goesOn
                                 THEN [node |-> i, phase |-> "started",
                                       from |-> at, at |-> at]
                                 ELSE NoGesture
               /\ UNCHANGED pins
          ELSE /\ pins' = [pins EXCEPT ![i] = at]
               /\ dragging' = [node |-> i, phase |-> "started",
                               from |-> at, at |-> at]
               /\ UNCHANGED uncaught
    /\ UNCHANGED <<pc, loading, personVisible, errorVisible, errorOrigin,
                   personName, familyData, sections, pushedNodes, networkData,
                   vizCalls, vizLinks, simulation, vizThrew, hovered>>
    /\ UNCHANGED <<linkOpacity, outlined, dragSim>>
    /\ UNCHANGED <<events, dateVars, windowVars, layoutVars, batchVars, searchVars>>

\* dragged (lines 295-298): the pointer moved to some point
Dragged ==
    /\ dragging.node # 0
    /\ \E at \in Points :
          /\ pins' = [pins EXCEPT ![dragging.node] = at]
          /\ dragging' = [dragging EXCEPT !.phase = "moved", !.at = at]
    /\ UNCHANGED <<pc, loading, personVisible, errorVisible, errorOrigin,
                   personName, familyData, sections, pushedNodes, networkData,
                   vizCalls, vizLinks, simulation, vizThrew, hovered, uncaught>>
    /\ UNCHANGED <<linkOpacity, outlined, dragSim>>
    /\ UNCHANGED <<events, dateVars, windowVars, layoutVars, batchVars, searchVars>>

\* dragended (lines 300-304): simulation.alphaTarget(0) comes before the pin
\* is cleared
DragEnd ==
    /\ dragging.node # 0
    /\ dragging' = NoGesture
    /\ IF dragSim = "undefined"
       THEN uncaught' = TRUE /\ UNCHANGED pins
       ELSE pins' = [pins EXCEPT ![dragging.node] = <<>>] /\ UNCHANGED uncaught
    /\ UNCHANGED <<pc, loading, personVisible, errorVisible, errorOrigin,
                   personName, familyData, sections, pushedNodes, networkData,
                   vizCalls, vizLinks, simulation, vizThrew, hovered>>
    /\ UNCHANGED <<linkOpacity, outlined, dragSim>>
    /\ UNCHANGED <<events, dateVars, windowVars, layoutVars, batchVars, searchVars>>

\* lines 211-225: a tick of the running simulation; the links of a running
\* simulation all resolved when it was built
ticked ==
    /\ simulation = "running"
    /\ UNCHANGED <<pc, loading, personVisible, errorVisible, errorOrigin,
                   personName, familyData, sections, pushedNodes, networkData,
                   vizCalls, vizLinks, simulation, vizThrew, hovered, uncaught>>
    /\ UNCHANGED <<events, dateVars, windowVars, layoutVars, batchVars, searchVars, gestureVars>>

NextViz ==
    \/ CallInitializeVisualization
    \/ MouseOver
    \/ MouseOut
    \/ DragStart
    \/ Dragged
    \/ DragEnd
    \/ ticked

SpecViz == Init /\ [][NextViz]_vars

(***************************************************************************)
(* Claims about the grouped-payload build (checked under SpecGrouped)      *)
(***************************************************************************)
\* the builder ran on a grouped payload and handed its graph to the adapter
GraphBuilt == vizCalls > 0 /\ familyData.form = "grouped"

NumParents == Len(familyData.parents)
NumChildren == Len(familyData.children)
NumSpouses == Len(familyData.spouses)
NumSiblings == Len(familyData.siblings)

\* some id was pushed more than once
RepeatedPush ==
    \E i, j \in 1..Len(pushedNodes) : i < j /\ pushedNodes[i].id = pushedNodes[j].id

\* the first-constructed node of an id
FirstPushed(id) == pushedNodes[Find(pushedNodes, id)]

HasId(nodes, id) == \E i \in 1..Len(nodes) : nodes[i].id = id

\* JS reads node.depth; the builder's nodes carry id, name and type
HasDepth(node, d) == "depth" \in DOMAIN node /\ node.depth = d

\* C2 (as claimed): after deduplication the node kept for an id is the
\* first-constructed instance, with the name and kind of the first push.
C2_FirstInstanceKept ==
    GraphBuilt =>
        \A i \in 1..Len(networkData.nodes) :
            networkData.nodes[i] = FirstPushed(networkData.nodes[i].id)

\* C4: in every graph built from a grouped payload each link's source and each
\* link's target is the id of a node of the deduplicated node list.
C4_LinksResolve ==
    GraphBuilt =>
        \A k \in 1..Len(networkData.links) :
            /\ HasId(networkData.nodes, networkData.links[k].source)
            /\ HasId(networkData.nodes, networkData.links[k].target)

C4_Witness ==
    /\ GraphBuilt
    /\ RepeatedPush
    /\ NumParents >= 1
    /\ NumSiblings >= 1
    /\ Len(networkData.nodes) < Len(pushedNodes)

\* C5: each sibling gets one parent-typed edge parent->sibling per entry of
\* parents and no sibling-typed edge when there is a parent, and exactly one
\* sibling-typed edge centre->sibling when there is none; the sibling edges are
\* the links after the parent, child and spouse edges, and there are no others.
C5_SiblingEdges ==
    GraphBuilt =>
        LET L == networkData.links
            base == NumParents + NumChildren + NumSpouses
            per == IF NumParents >= 1 THEN NumParents ELSE 1
        IN  /\ Len(L) = base + NumSiblings * per
            /\ \A k \in 1..NumSiblings :
                  IF NumParents >= 1
                  THEN \A j \in 1..NumParents :
                           L[base + (k - 1) * NumParents + j] =
                               [source |-> familyData.parents[j].id,
                                target |-> familyData.siblings[k].id,
                                type |-> "parent"]
                  ELSE L[base + k] = [source |-> entityId,
                                      target |-> familyData.siblings[k].id,
                                      type |-> "sibling"]
            /\ NumParents >= 1 => \A k \in 1..Len(L) : L[k].type # "sibling"
            /\ NumParents = 0 =>
                  Cardinality({k \in 1..Len(L) : L[k].type = "sibling"}) = NumSiblings

C5_Witness ==
    /\ GraphBuilt
    /\ NumParents = 2
    /\ NumSiblings = 1
    /\ Len(networkData.links) = 4

\* C6 (as claimed): 1 + N + M + P + S nodes are pushed, and after deduplication
\* at least one node remains, the self node of the central person among them.
C6_SelfNodePresent ==
    GraphBuilt =>
        /\ Len(pushedNodes) = 1 + NumParents + NumChildren + NumSpouses + NumSiblings
        /\ Len(networkData.nodes) >= 1
        /\ \E i \in 1..Len(networkData.nodes) :
              /\ networkData.nodes[i].id = entityId
              /\ networkData.nodes[i].type = "self"

\* C7: with pairwise distinct ids the links before the sibling edges are one
\* parent edge parent->self per parent, one parent edge self->child per child
\* and one spouse edge self-spouse per spouse; every type is parent, spouse or
\* sibling; a parent-typed edge runs from a parent to the centre, from the
\* centre to a child, or from a parent to a sibling.  The Q9682 instance gives
\* four nodes and the three edges of the scenario.
Q9682Scenario ==
    [form |-> "grouped",
     parents  |-> <<[id |-> "Q1", name |-> "George VI"]>>,
     children |-> <<>>,
     spouses  |-> <<[id |-> "Q2", name |-> "Philip"]>>,
     siblings |-> <<[id |-> "Q3", name |-> "Margaret"]>>]

IdsOf(arr) == {arr[i].id : i \in 1..Len(arr)}

C7_EdgesAndDirection ==
    (GraphBuilt /\ ~RepeatedPush) =>
        LET L == networkData.links
        IN  /\ Len(L) >= NumParents + NumChildren + NumSpouses
            /\ \A i \in 1..NumParents :
                  L[i] = [source |-> familyData.parents[i].id,
                          target |-> entityId, type |-> "parent"]
            /\ \A i \in 1..NumChildren :
                  L[NumParents + i] = [source |-> entityId,
                                       target |-> familyData.children[i].id,
                                       type |-> "parent"]
            /\ \A i \in 1..NumSpouses :
                  L[NumParents + NumChildren + i] =
                      [source |-> entityId, target |-> familyData.spouses[i].id,
                       type |-> "spouse"]
            /\ \A k \in 1..Len(L) :
                  /\ L[k].type \in LinkTypes
                  /\ L[k].type = "parent" =>
                        \/ /\ L[k].source \in IdsOf(familyData.parents)
                           /\ L[k].target \in {entityId} \cup IdsOf(familyData.siblings)
                        \/ /\ L[k].source = entityId
                           /\ L[k].target \in IdsOf(familyData.children)
            /\ familyData = Q9682Scenario =>
                  /\ [i \in 1..Len(networkData.nodes) |-> networkData.nodes[i].id]
                         = <<"Q9682", "Q1", "Q2", "Q3">>
                  /\ L = << [source |-> "Q1", target |-> "Q9682", type |-> "parent"],
                            [source |-> "Q9682", target |-> "Q2", type |-> "spouse"],
                            [source |-> "Q1", target |-> "Q3", type |-> "parent"] >>

C7_Witness == GraphBuilt /\ familyData = Q9682Scenario

\* C8 (as claimed): exactly one node of the built graph has depth 0, the
\* central person with kind self, and every other node has depth 1 and the kind
\* of the relation array it came from.
C8_DepthAndKind ==
    GraphBuilt =>
        /\ \E i \in 1..Len(networkData.nodes) :
              /\ HasDepth(networkData.nodes[i], 0)
              /\ networkData.nodes[i].id = entityId
              /\ networkData.nodes[i].type = "self"
              /\ \A j \in 1..Len(networkData.nodes) :
                    j # i => /\ HasDepth(networkData.nodes[j], 1)
                             /\ networkData.nodes[j].type \in Kinds \ {"self"}


(***************************************************************************)
(* Claims about the graph-payload page and the layout adapter              *)
(***************************************************************************)
RECURSIVE SumSeq(_)
SumSeq(q) == IF q = <<>> THEN 0 ELSE Head(q) + SumSeq(Tail(q))

\* C1 (as claimed): the node list handed to initializeVisualization never holds
\* two nodes with the same id, whichever form the payload has.
C1_UniqueNodeIds ==
    vizCalls > 0 =>
        \A i, j \in 1..Len(networkData.nodes) :
            i # j => networkData.nodes[i].id # networkData.nodes[j].id

ExactlyOneCentral(nodes) ==
    Cardinality({i \in 1..Len(nodes) : nodes[i].depth = 0}) = 1

Resolves(nodes, link) == HasId(nodes, link.source) /\ HasId(nodes, link.target)

\* C3 (as claimed): for a payload with exactly one depth-0 node the adapter
\* renders the links whose two ids resolve, drops the others, and raises no
\* error at construction, on a tick or on hover.
C3_DanglingLinksDropped ==
    (vizCalls > 0 /\ familyData.form = "graph" /\ ExactlyOneCentral(networkData.nodes)) =>
        /\ ~vizThrew
        /\ ~uncaught
        /\ \A k \in 1..Len(vizLinks) : ~Dangling(vizLinks[k])
        /\ Len(vizLinks) =
              Cardinality({k \in 1..Len(networkData.links) :
                              Resolves(networkData.nodes, networkData.links[k])})

C10_NoCentralDegrades ==
    (pc = "settled" /\ familyData.form = "graph" /\ CentralPerson(familyData.nodes) = 0) =>
        /\ errorOrigin # "display"
        /\ ~uncaught
        /\ personVisible
        /\ ~loading
        /\ sections = NoSections
        /\ vizCalls = 1
        /\ networkData = [nodes |-> familyData.nodes, links |-> familyData.links]
        /\ errorVisible <=> (\E k \in 1..Len(familyData.links) :
                                ~Resolves(familyData.nodes, familyData.links[k]))

C10_Witness ==
    /\ pc = "settled"
    /\ familyData.form = "graph"
    /\ CentralPerson(familyData.nodes) = 0
    /\ Len(familyData.nodes) = 2
    /\ Len(familyData.links) = 1
    /\ ~errorVisible

(***************************************************************************)
(* The four formatDate functions.  A string is modelled by what             *)
(* new Date(string) makes of it:                                            *)
(*   "iso"      YYYY-MM-DD, read as midnight UTC of that day                *)
(*   "year"     YYYY, read as midnight UTC of 1 January                     *)
(*   "long"     April 21, 1926, read as local midnight of that day          *)
(*   "short"    Apr 21, 1926, read as local midnight of that day            *)
(*   "wikidata" +YYYY-00-00T00:00:00Z, an Invalid Date holding four digits  *)
(*   "text"     an Invalid Date without four digits in a row                *)
(*   "empty"    '', and "null" for null or undefined                        *)
(***************************************************************************)
MaxYearSpan == 2

Years == 1925..(1925 + MaxYearSpan)
MonthDays == {<<1, 1>>, <<4, 21>>, <<12, 31>>}
TimeZones == {"behindUTC", "UTC", "aheadOfUTC"}
FormatDates == {"details.js", "visualization.js", "part_000", "part_002"}

Calendar(kind) == {[kind |-> kind, y |-> y, m |-> md[1], d |-> md[2]] :
                       y \in Years, md \in MonthDays}
Text(s) == [kind |-> "text", s |-> s]

DateStrings ==
    {[kind |-> "null"], [kind |-> "empty"], Text("Unknown"), Text("c. 12th century")}
    \cup Calendar("iso") \cup Calendar("long") \cup Calendar("short")
    \cup {[kind |-> k, y |-> y] : k \in {"year", "wikidata"}, y \in Years}

DaysIn(y, m) ==
    IF m = 2 THEN (IF y % 4 = 0 /\ (y % 100 # 0 \/ y % 400 = 0) THEN 29 ELSE 28)
    ELSE IF m \in {4, 6, 9, 11} THEN 30 ELSE 31

\* the calendar day before y-m-d
PrevDay(y, m, d) ==
    IF d > 1 THEN [y |-> y, m |-> m, d |-> d - 1]
    ELSE IF m > 1 THEN [y |-> y, m |-> m - 1, d |-> DaysIn(y, m - 1)]
    ELSE [y |-> y - 1, m |-> 12, d |-> 31]

\* isNaN(new Date(dateString).getTime())
InvalidDate(s) == s.kind \in {"wikidata", "text", "empty", "null"}

\* the local calendar day of new Date(dateString), which getFullYear and
\* toLocaleDateString read: midnight UTC lies in the previous local day of a
\* zone behind UTC
LocalDay(s, tz) ==
    LET y == s.y
        m == IF s.kind = "year" THEN 1 ELSE s.m
        d == IF s.kind = "year" THEN 1 ELSE s.d
    IN  IF s.kind \in {"iso", "year"} /\ tz = "behindUTC"
        THEN PrevDay(y, m, d)
        ELSE [y |-> y, m |-> m, d |-> d]

\* date.toLocaleDateString('en-US', {year: 'numeric', month: .., day: 'numeric'})
toLocaleDateString(day, month) ==
    [kind |-> month, y |-> day.y, m |-> day.m, d |-> day.d]

\* date.getFullYear().toString()
YearString(day) == [kind |-> "year", y |-> day.y]

\* dateString.match(/[+-]?(\d{4})/) of part_002, for an Invalid Date
YearMatch(s) == IF s.kind = "wikidata" THEN [kind |-> "year", y |-> s.y]
                ELSE [kind |-> "empty"]

Falsy(s) == s.kind \in {"null", "empty"}

\* the value each formatDate returns for a falsy argument
Placeholder(fn) == IF fn \in {"details.js", "visualization.js"}
                   THEN Text("Unknown") ELSE [kind |-> "empty"]

\* formatDate of details.js (306-324), visualization.js (317-334),
\* part_000 (282-298) and part_002 (155-172)
formatDate(fn, dateString, tz) ==
    IF Falsy(dateString) THEN Placeholder(fn)
    ELSE IF InvalidDate(dateString)
         THEN (IF fn = "part_002" THEN YearMatch(dateString) ELSE dateString)
    ELSE IF fn = "details.js" THEN toLocaleDateString(LocalDay(dateString, tz), "long")
    ELSE IF fn = "part_000" THEN toLocaleDateString(LocalDay(dateString, tz), "short")
    ELSE YearString(LocalDay(dateString, tz))

\* one of the formatDate functions is applied to a string, and again to what
\* it returned, in a browser of some time zone
ApplyFormatDate ==
    /\ \E fn \in FormatDates, s \in DateStrings, tz \in TimeZones :
          dateCase' = [fn |-> fn, tz |-> tz, input |-> s,
                       once |-> formatDate(fn, s, tz),
                       twice |-> formatDate(fn, formatDate(fn, s, tz), tz)]
    /\ UNCHANGED <<pc, loading, personVisible, errorVisible, errorOrigin,
                   personName, familyData, sections, pushedNodes, networkData,
                   vizCalls, vizLinks, simulation, vizThrew, hovered, uncaught,
                   events, searchVars, gestureVars, windowVars, layoutVars,
                   batchVars>>

NextFormatDate == ApplyFormatDate

SpecFormatDate == Init /\ [][NextFormatDate]_vars

Formatted == dateCase.fn # "none"

\* C11 (as claimed): every formatDate returns its placeholder for null,
\* undefined and the empty string, returns a string that is no date unchanged,
\* and applied to its own result returns that result
C11_TotalAndIdempotent ==
    Formatted =>
        /\ Falsy(dateCase.input) => dateCase.once = Placeholder(dateCase.fn)
        /\ (~Falsy(dateCase.input) /\ InvalidDate(dateCase.input))
               => dateCase.once = dateCase.input
        /\ dateCase.twice = dateCase.once

(***************************************************************************)
(* Claims about the promise chain of loadPersonDetails                     *)
(***************************************************************************)
Settled == pc = "settled"

Happened(e) == \E i \in 1..Len(events) : events[i] = e

Times(e) == Cardinality({i \in 1..Len(events) : events[i] = e})

Rank(e) ==
    IF e = "detailRequest" THEN 1
    ELSE IF e \in {"detailResponse", "detailResponseNotOk"} THEN 2
    ELSE IF e = "detailDisplayed" THEN 3
    ELSE IF e = "familyRequest" THEN 4
    ELSE IF e \in {"familyResponse", "familyResponseNotOk"} THEN 5
    ELSE IF e = "sectionsRendered" THEN 6
    ELSE IF e = "adapterCall" THEN 7
    ELSE 0

\* the detail step failed: no answer, an answer that is no 2xx, or an
\* exception while handling it
DetailStepFailed ==
    \/ Happened("detailRejected")
    \/ Happened("detailResponseNotOk")
    \/ Happened("detailFailed")

\* C14 (as claimed): within one run of loadPersonDetails the steps run in the
\* order detail request, detail response, detail display, family request,
\* family response, sections rendered, adapter call, each at most once; the
\* family request follows the detail response and is never issued when the
\* detail step failed; the adapter is called at most once
C14_StepOrder ==
    /\ \A i, j \in 1..Len(events) :
          (i < j /\ Rank(events[i]) > 0 /\ Rank(events[j]) > 0)
              => Rank(events[i]) < Rank(events[j])
    /\ \A j \in 1..Len(events) :
          events[j] = "familyRequest" => \E i \in 1..(j - 1) : Rank(events[i]) = 2
    /\ DetailStepFailed => ~Happened("familyRequest")
    /\ Times("adapterCall") = vizCalls
    /\ vizCalls <= 1

\* a connection error or a response that is no 2xx, at either request
TransportFailure ==
    \/ Happened("detailRejected")
    \/ Happened("detailResponseNotOk")
    \/ Happened("familyRejected")
    \/ Happened("familyResponseNotOk")

TransportFailures ==
    {"detailRejected", "detailResponseNotOk", "familyRejected", "familyResponseNotOk"}

\* C15 (as claimed): a connection error or a non-2xx response at any step is
\* caught exactly once, no later step of the chain runs, and the chain ends
\* with the error panel visible; nothing is thrown uncaught or retried
C15_FailureSurfacedOnce ==
    (Settled /\ TransportFailure) =>
        /\ Times("catch") = 1
        /\ \A i \in 1..Len(events) :
              events[i] \in TransportFailures
                  => \A j \in (i + 1)..Len(events) : events[j] \in {"catch", "finally"}
        /\ Times("detailRequest") = 1
        /\ Times("familyRequest") <= 1
        /\ errorVisible
        /\ ~uncaught

\* C16 (as claimed): a grouped payload whose arrays are empty or absent is no
\* error: the chain settles on the success path, every section is rendered and
\* the section of an empty or absent array shows no entry
C16_SparsePayloadAccepted ==
    (Settled /\ Happened("familyResponse") /\ familyData.form = "grouped") =>
        /\ ~Happened("catch")
        /\ ~errorVisible
        /\ personVisible
        /\ sections.rendered
        /\ \A key \in RelationKeys :
              Relations(familyData, key) = <<>> => sections[key] = <<>>

\* a payload of either form that is sound in itself: a grouped payload holding
\* its four arrays, or a graph payload with a central node whose links all
\* join nodes of the payload
SoundPayload ==
    \/ familyData.form = "grouped" /\ RelationKeys \subseteq DOMAIN familyData
    \/ /\ familyData.form = "graph"
       /\ CentralPerson(familyData.nodes) # 0
       /\ \A k \in 1..Len(familyData.links) :
             /\ HasId(familyData.nodes, familyData.links[k].source)
             /\ HasId(familyData.nodes, familyData.links[k].target)

\* C17 (as claimed): given the grouped form or the graph form, the chain
\* renders the four sections and hands a graph to the adapter without entering
\* the error path
C17_BothFormsAccepted ==
    (Settled /\ Happened("familyResponse") /\ SoundPayload) =>
        /\ ~Happened("catch")
        /\ sections.rendered
        /\ vizCalls = 1

(***************************************************************************)
(* Search.  A query is the sequence of its characters.  Two search pages    *)
(* live in the repository: templates/search.html with performSearch of      *)
(* part_001 (SpecSearchPage), and the search script at the end of part_000  *)
(* (SpecSearch).  `loading` and `errorVisible` stand for the loading        *)
(* indicator and the error alert of the search page.                        *)
(***************************************************************************)
MaxQueryLen == 2
MaxPages == 3
MaxSearches == 3
MaxInFlight == 2

Chars == {" ", "a"}
RawQueries == SeqsUpTo(Chars, MaxQueryLen)

RECURSIVE TrimStart(_)
TrimStart(q) == IF q # <<>> /\ Head(q) = " " THEN TrimStart(Tail(q)) ELSE q

RECURSIVE TrimEnd(_)
TrimEnd(q) == IF q # <<>> /\ q[Len(q)] = " "
              THEN TrimEnd(SubSeq(q, 1, Len(q) - 1)) ELSE q

\* String.prototype.trim
Trim(q) == TrimEnd(TrimStart(q))

\* encodeURIComponent: a space becomes %20
RECURSIVE encodeURIComponent(_)
encodeURIComponent(q) ==
    IF q = <<>> THEN <<>>
    ELSE (IF Head(q) = " " THEN <<"%", "2", "0">> ELSE <<Head(q)>>)
             \o encodeURIComponent(Tail(q))

\* url.searchParams.set: a space becomes +
RECURSIVE FormEncode(_)
FormEncode(q) ==
    IF q = <<>> THEN <<>>
    ELSE <<IF Head(q) = " " THEN "+" ELSE Head(q)>> \o FormEncode(Tail(q))

\* what url.searchParams.get and the server read back from the address
RECURSIVE Decode(_)
Decode(q) ==
    IF q = <<>> THEN <<>>
    ELSE IF Head(q) = "+" THEN <<" ">> \o Decode(Tail(q))
    ELSE IF Len(q) >= 3 /\ SubSeq(q, 1, 3) = <<"%", "2", "0">>
         THEN <<" ">> \o Decode(SubSeq(q, 4, Len(q)))
    ELSE <<Head(q)>> \o Decode(Tail(q))

\* the page a URL stands for: the server's default is page 1
PageOf(u) == IF u.page = 0 THEN 1 ELSE u.page

NoPagination == [total |-> 0]

Max(a, b) == IF a > b THEN a ELSE b
Min(a, b) == IF a < b THEN a ELSE b

\* the state of the details page, which the search pages leave alone
detailVars == <<pc, personVisible, errorOrigin, personName, familyData, sections,
                pushedNodes, networkData, vizCalls, vizLinks, simulation,
                vizThrew, hovered, uncaught, events>>

\* the model follows MaxSearches searches with MaxInFlight of them in flight
MaySearch == searches < MaxSearches /\ Cardinality(inFlight) < MaxInFlight

\* createPagination (part_001) lines 112-113
Window_legacy(current, total) ==
    LET startPage == Max(1, current - 2)
        endPage   == Min(total, startPage + 4)
    IN  startPage..endPage

\* the pages the rendered links lead to: the numbered links but the active one
\* (lines 115-121), Previous (lines 92-100) and Next (lines 124-131)
Targets_legacy(pag) ==
    (Window_legacy(pag.current, pag.total) \ {pag.current})
        \cup (IF pag.current > 1 THEN {pag.current - 1} ELSE {})
        \cup (IF pag.current < pag.total THEN {pag.current + 1} ELSE {})

\* performSearch (part_001) lines 10-17: show the indicator, empty the results
\* and the pagination, send the request
performSearch_legacy(query, page) ==
    /\ loading' = TRUE
    /\ display' = [kind |-> "none"]
    /\ errorVisible' = FALSE
    /\ pagination' = NoPagination
    /\ inFlight' = inFlight \cup {[n |-> searches + 1, query |-> query, page |-> page]}
    /\ searches' = searches + 1
    /\ lastIssued' = [query |-> query, page |-> page]

\* search.html lines 54-60: the page is opened at some address; the server
\* renders the query and page of the address into the script
PageLoad_legacy ==
    /\ searchPc = "unloaded"
    /\ searchPc' = "ready"
    /\ \E raw \in RawQueries, p \in 0..MaxPages :
          LET address    == [query |-> encodeURIComponent(raw), page |-> p]
              queryParam == Decode(address.query)
              pageParam  == PageOf(address)
          IN  /\ url' = address
              /\ IF queryParam # <<>>
                 THEN performSearch_legacy(queryParam, pageParam)
                 ELSE UNCHANGED <<loading, display, errorVisible, pagination,
                                  inFlight, searches, lastIssued>>
    /\ UNCHANGED <<currentQuery, currentPage, totalResults>>
    /\ UNCHANGED <<detailVars, dateVars, windowVars, layoutVars, batchVars, gestureVars>>

\* search.html lines 63-73: the form is submitted with some text in the field
Submit_legacy ==
    /\ searchPc = "ready"
    /\ MaySearch
    /\ \E raw \in RawQueries :
          LET query == Trim(raw)
          IN  IF query # <<>>
              THEN /\ url' = [query |-> encodeURIComponent(query), page |-> 0]
                   /\ performSearch_legacy(query, 1)
              ELSE UNCHANGED <<url, loading, display, errorVisible, pagination,
                               inFlight, searches, lastIssued>>
    /\ UNCHANGED <<searchPc, currentQuery, currentPage, totalResults>>
    /\ UNCHANGED <<detailVars, dateVars, windowVars, layoutVars, batchVars, gestureVars>>

\* performSearch (part_001) lines 18-40: the request settles.  The body of any
\* response is parsed; the body of a non-2xx answer holds no results and no
\* pages
Settle_legacy ==
    /\ \E req \in inFlight, response \in Responses,
          hasResults \in BOOLEAN, pages \in 0..MaxPages :
          LET data == IF response = "ok"
                      THEN [results |-> hasResults, pages |-> pages]
                      ELSE [results |-> FALSE, pages |-> 0]
          IN  /\ inFlight' = inFlight \ {req}
              /\ loading' = FALSE
              /\ IF response = "rejected"
                 THEN /\ display' = [kind |-> "error", query |-> req.query,
                                     page |-> req.page]
                      /\ errorVisible' = TRUE
                      /\ UNCHANGED pagination
                 ELSE /\ display' = [kind  |-> IF data.results THEN "results"
                                               ELSE "noResults",
                                     query |-> req.query, page |-> req.page]
                      /\ errorVisible' = FALSE
                      /\ pagination' = IF data.pages > 1
                                       THEN [total |-> data.pages,
                                             current |-> req.page,
                                             query |-> req.query]
                                       ELSE pagination
    /\ UNCHANGED <<url, searchPc, searches, lastIssued, currentQuery, currentPage,
                   totalResults>>
    /\ UNCHANGED <<detailVars, dateVars, windowVars, layoutVars, batchVars, gestureVars>>

\* createPagination (part_001) lines 146-165: a click on a link that is neither
\* disabled nor active pushes its href and searches for what the href says
PageClick_legacy ==
    /\ pagination.total > 1
    /\ MaySearch
    /\ \E i \in Targets_legacy(pagination) :
          LET href == [query |-> encodeURIComponent(pagination.query), page |-> i]
          IN  /\ url' = href
              /\ performSearch_legacy(Decode(href.query), href.page)
    /\ UNCHANGED <<searchPc, currentQuery, currentPage, totalResults>>
    /\ UNCHANGED <<detailVars, dateVars, windowVars, layoutVars, batchVars, gestureVars>>

NextSearchPage ==
    \/ PageLoad_legacy
    \/ Submit_legacy
    \/ Settle_legacy
    \/ PageClick_legacy

SpecSearchPage == Init /\ [][NextSearchPage]_vars

\* C12 (as claimed): no request to /api/search carries an empty or
\* whitespace-only query, whether the search was started by the form, by the
\* address the page was loaded with, or by a pagination link
C12_NoBlankQuery == \A req \in inFlight : Trim(req.query) # <<>>

(***************************************************************************)
(* The search script of part_000 (lines 322-611).  Its template is not in   *)
(* the repository: the pagination links are taken to be clickable whenever  *)
(* they are rendered.                                                       *)
(***************************************************************************)
resultsPerPage == 10

\* createPagination (part_000) lines 484-491
Window(current, total) ==
    LET maxVisiblePages == 5
        startPage == Max(1, current - 2)
        endPage   == Min(total, startPage + maxVisiblePages - 1)
    IN  IF endPage - startPage + 1 < maxVisiblePages
        THEN Max(1, endPage - maxVisiblePages + 1)..endPage
        ELSE startPage..endPage

\* the pages the links with a click listener lead to: Previous (473-478), the
\* first page (494-506), the numbered links but the active one (526-544), the
\* last page (547-577) and Next (589-594)
Targets(pag) ==
    LET window == Window(pag.current, pag.total)
    IN  (window \ {pag.current})
            \cup (IF pag.current > 1 THEN {pag.current - 1} ELSE {})
            \cup (IF \A i \in window : i > 1 THEN {1} ELSE {})
            \cup (IF \A i \in window : i < pag.total THEN {pag.total} ELSE {})
            \cup (IF pag.current < pag.total THEN {pag.current + 1} ELSE {})

\* Math.ceil(totalResults / resultsPerPage)
TotalPages(total) == (total + resultsPerPage - 1) \div resultsPerPage

\* performSearch (part_000) lines 366-377: show the indicator, hide the
\* results container, the no-results note and the error, send the request
performSearch(query, page) ==
    /\ loading' = TRUE
    /\ display' = [display EXCEPT !.results = FALSE, !.noResults = FALSE]
    /\ errorVisible' = FALSE
    /\ inFlight' = inFlight \cup {[n |-> searches + 1, query |-> query, page |-> page]}
    /\ searches' = searches + 1
    /\ lastIssued' = [query |-> query, page |-> page]

\* the page is opened at some address; the script starts no search by itself
PageLoad ==
    /\ searchPc = "unloaded"
    /\ searchPc' = "ready"
    /\ \E raw \in RawQueries, p \in 0..MaxPages :
          url' = [query |-> encodeURIComponent(raw), page |-> p]
    /\ display' = [kind |-> "panels", results |-> FALSE, noResults |-> FALSE,
                   list |-> [query |-> <<>>, page |-> 0], heading |-> <<>>]
    /\ UNCHANGED <<loading, errorVisible, inFlight, searches, lastIssued,
                   pagination, currentQuery, currentPage, totalResults>>
    /\ UNCHANGED <<detailVars, dateVars, windowVars, layoutVars, batchVars, gestureVars>>

\* lines 345-359: the form is submitted with some text in the field
Submit ==
    /\ searchPc = "ready"
    /\ MaySearch
    /\ \E raw \in RawQueries :
          LET query == Trim(raw)
          IN  IF query # <<>>
              THEN /\ currentQuery' = query
                   /\ currentPage' = 1
                   /\ performSearch(query, 1)
                   /\ url' = [url EXCEPT !.query = FormEncode(query)]
              ELSE UNCHANGED <<currentQuery, currentPage, loading, display,
                               errorVisible, inFlight, searches, lastIssued, url>>
    /\ UNCHANGED <<searchPc, pagination, totalResults>>
    /\ UNCHANGED <<detailVars, dateVars, windowVars, layoutVars, batchVars, gestureVars>>

\* lines 378-401 with displaySearchResults (408-449): the request settles
Settle ==
    /\ \E req \in inFlight, response \in Responses, hasResults \in BOOLEAN,
          echoesPage \in BOOLEAN, pages \in 0..MaxPages :
          LET dataPage == IF echoesPage THEN req.page ELSE 0 IN
          /\ inFlight' = inFlight \ {req}
          /\ loading' = FALSE
          /\ IF response # "ok"
             THEN /\ errorVisible' = TRUE
                  /\ UNCHANGED <<currentPage, totalResults, display, pagination>>
             ELSE LET page  == IF dataPage = 0 THEN 1 ELSE dataPage
                      total == pages * resultsPerPage
                  IN  /\ currentPage' = page
                      /\ totalResults' = total
                      /\ UNCHANGED errorVisible
                      /\ IF ~hasResults
                         THEN /\ display' = [display EXCEPT
                                                !.noResults = TRUE,
                                                !.list = [query |-> <<>>, page |-> 0]]
                              /\ UNCHANGED pagination
                         ELSE /\ display' = [display EXCEPT
                                                !.results = TRUE,
                                                !.list = [query |-> req.query,
                                                          page |-> req.page],
                                                !.heading = currentQuery]
                              /\ pagination' =
                                    IF TotalPages(total) <= 1 THEN NoPagination
                                    ELSE [total |-> TotalPages(total), current |-> page]
    /\ UNCHANGED <<url, searchPc, searches, lastIssued, currentQuery>>
    /\ UNCHANGED <<detailVars, dateVars, windowVars, layoutVars, batchVars, gestureVars>>

\* the click listeners of createPagination: performSearch(currentQuery, page)
PageClick ==
    /\ pagination.total > 1
    /\ MaySearch
    /\ \E i \in Targets(pagination) : performSearch(currentQuery, i)
    /\ UNCHANGED <<url, searchPc, pagination, currentQuery, currentPage,
                   totalResults>>
    /\ UNCHANGED <<detailVars, dateVars, windowVars, layoutVars, batchVars, gestureVars>>

NextSearch ==
    \/ PageLoad
    \/ Submit
    \/ Settle
    \/ PageClick

SpecSearch == Init /\ [][NextSearch]_vars

\* C18 (as claimed): after every search issued by the form or by a pagination
\* link, the query and page parameters of the address are those of the search
\* issued
C18_AddressIdentifiesSearch ==
    searches > 0 =>
        /\ Decode(url.query) = lastIssued.query
        /\ PageOf(url) = lastIssued.page

(***************************************************************************)
(* Claims about the pointer gestures on the graph (SpecViz)                *)
(***************************************************************************)
Touches(k, n) == vizLinks[k].source = n \/ vizLinks[k].target = n

\* C19 (as claimed): while node n is hovered a line is opaque exactly when n
\* is its source or its target and every other line is dimmed; whenever no
\* node is hovered every line is opaque and no circle carries the highlight
C19_HoverHighlight ==
    vizCalls > 0 =>
        /\ hovered # 0 =>
              \A k \in 1..Len(vizLinks) :
                  /\ Touches(k, hovered) => linkOpacity[k] = 100
                  /\ ~Touches(k, hovered) => linkOpacity[k] < 100
        /\ hovered = 0 =>
              /\ \A k \in 1..Len(vizLinks) : linkOpacity[k] = 100
              /\ outlined = {}

\* C20 (as claimed): from drag start the node's pin is its position at the
\* start, after a drag event it is the pointer's position, when no gesture is
\* active it is cleared, and the pin of no other node is set
C20_DragPins ==
    vizCalls > 0 =>
        /\ dragging.phase = "started" => pins[dragging.node] = dragging.from
        /\ dragging.phase = "moved" => pins[dragging.node] = dragging.at
        /\ \A j \in 1..Len(pins) : j # dragging.node => pins[j] = <<>>

(***************************************************************************)
(* The display surface: the size initializeVisualization reads of its      *)
(* container, the colour it gives every circle and the positions the ticks *)
(* leave.  getNodeColor and the clamp of ticked treat every node by        *)
(* itself, so the graphs laid out here have one node and no link.          *)
(***************************************************************************)
MaxDepth == 4

\* container.clientWidth and container.clientHeight: 0 while the container is
\* not displayed (the network pane of search.html is a tab-pane that is not
\* active when the page loads)
Widths == {0, 30, 100}
Heights == {0, 30, 100}

\* the coordinates the force engine can propose for a node
Proposed == {-5, 50, 120}

Genders == {"", "male", "female", "other", "unknown"}

\* the nodes of a graph payload, with and without a gender
LayoutNodes ==
    [id : {entityId}, depth : 0..MaxDepth]
        \cup [id : {entityId}, depth : 0..MaxDepth, gender : Genders]

\* the nodes the builder of part_000 pushes
LayoutNodes_grouped == [id : {entityId}, name : {"Elizabeth II"}, type : Kinds]

depthColors == <<"#3498DB", "#2C3E50", "#34495E", "#7F8C8D">>

\* variant: the ramp is read at depth, without Math.min
getNodeColorUnclamped(node) ==
    IF node.depth = 0 THEN "#3498DB"
    ELSE IF "gender" \in DOMAIN node /\ node.gender = "male" THEN "#7FB3D5"
    ELSE IF "gender" \in DOMAIN node /\ node.gender = "female" THEN "#F5B7B1"
    ELSE IF node.depth + 1 \in DOMAIN depthColors THEN depthColors[node.depth + 1]
    ELSE "undefined"

\* getNodeColor (visualization.js lines 91-109); depthColors is indexed from 0
getNodeColor(node) ==
    IF node.depth = 0 THEN "#3498DB"
    ELSE IF "gender" \in DOMAIN node /\ node.gender = "male" THEN "#7FB3D5"
    ELSE IF "gender" \in DOMAIN node /\ node.gender = "female" THEN "#F5B7B1"
    ELSE depthColors[Min(node.depth, Len(depthColors) - 1) + 1]

\* getNodeColor (part_002 lines 92-107)
getNodeColor_grouped(node) ==
    IF node.type = "self" THEN "#3498db"
    ELSE IF node.type = "parent" THEN "#e74c3c"
    ELSE IF node.type = "child" THEN "#2ecc71"
    ELSE IF node.type = "spouse" THEN "#f39c12"
    ELSE IF node.type = "sibling" THEN "#9b59b6"
    ELSE "#95a5a6"

\* visualization.js lines 11-25: the container is emptied and an svg of the
\* size read is appended, whatever the size
Surface(adapter, width, height) ==
    /\ surface' = [adapter |-> adapter, width |-> width, height |-> height]
    /\ svg' = <<width, height>>

\* initializeVisualization (visualization.js) on a container of some size
LayOut ==
    /\ vizCalls < MaxCalls
    /\ \E width \in Widths, height \in Heights, node \in LayoutNodes :
          LET data == [form |-> "graph", nodes |-> <<node>>, links |-> <<>>]
              viz  == initializeVisualization(data)
          IN  /\ Surface("visualization.js", width, height)
              /\ fills' = [i \in 1..Len(data.nodes) |-> getNodeColor(data.nodes[i])]
              /\ positions' = [i \in 1..Len(data.nodes) |-> <<>>]
              /\ familyData' = data
              /\ networkData' = [nodes |-> data.nodes, links |-> data.links]
              /\ vizCalls' = vizCalls + 1
              /\ vizLinks' = viz.links
              /\ vizThrew' = viz.threw
              /\ simulation' = "running"
              /\ Rendered(data, viz)
    /\ hovered' = 0
    /\ UNCHANGED <<pc, loading, personVisible, errorVisible, errorOrigin,
                   personName, sections, pushedNodes, uncaught>>
    /\ UNCHANGED <<events, dateVars, windowVars, batchVars, searchVars>>

\* initializeVisualization (part_002 lines 5-90) on a container of some size
LayOut_grouped ==
    /\ vizCalls < MaxCalls
    /\ \E width \in Widths, height \in Heights, node \in LayoutNodes_grouped :
          LET data == [nodes |-> <<node>>, links |-> <<>>]
              viz  == initializeVisualization_grouped(data)
          IN  /\ Surface("part_002", width, height)
              /\ fills' = [i \in 1..Len(data.nodes) |->
                              getNodeColor_grouped(data.nodes[i])]
              /\ positions' = [i \in 1..Len(data.nodes) |-> <<>>]
              /\ networkData' = data
              /\ vizCalls' = vizCalls + 1
              /\ vizLinks' = viz.links
              /\ vizThrew' = viz.threw
              /\ simulation' = "running"
    /\ UNCHANGED <<pc, loading, personVisible, errorVisible, errorOrigin,
                   personName, familyData, sections, pushedNodes, hovered,
                   uncaught>>
    /\ UNCHANGED <<events, dateVars, windowVars, batchVars, searchVars, gestureVars>>

\* Math.max(20, Math.min(limit - 20, v)) of ticked (visualization.js 219-220)
Clamp(limit, v) == Max(20, Min(limit - 20, v))

\* ticked (visualization.js lines 211-225) after the engine proposed a position
\* for every node: d.x and d.y are overwritten by their clamped values
tickedOnSurface ==
    /\ simulation = "running"
    /\ surface.adapter = "visualization.js"
    /\ \E p \in [1..Len(positions) -> Proposed \X Proposed] :
          positions' = [i \in 1..Len(positions) |->
                           <<Clamp(surface.width, p[i][1]),
                             Clamp(surface.height, p[i][2])>>]
    /\ UNCHANGED <<pc, loading, personVisible, errorVisible, errorOrigin,
                   personName, familyData, sections, pushedNodes, networkData,
                   vizCalls, vizLinks, simulation, vizThrew, hovered, uncaught>>
    /\ UNCHANGED <<surface, svg, fills>>
    /\ UNCHANGED <<events, dateVars, windowVars, batchVars, searchVars, gestureVars>>

\* ticked (part_002 lines 109-118): every node is drawn where the engine put it
tickedOnSurface_grouped ==
    /\ simulation = "running"
    /\ surface.adapter = "part_002"
    /\ \E p \in [1..Len(positions) -> Proposed \X Proposed] :
          positions' = [i \in 1..Len(positions) |-> <<p[i][1], p[i][2]>>]
    /\ UNCHANGED <<pc, loading, personVisible, errorVisible, errorOrigin,
                   personName, familyData, sections, pushedNodes, networkData,
                   vizCalls, vizLinks, simulation, vizThrew, hovered, uncaught>>
    /\ UNCHANGED <<surface, svg, fills>>
    /\ UNCHANGED <<events, dateVars, windowVars, batchVars, searchVars, gestureVars>>

NextLayout ==
    \/ LayOut
    \/ LayOut_grouped
    \/ tickedOnSurface
    \/ tickedOnSurface_grouped

SpecLayout == Init /\ [][NextLayout]_vars

ZeroSized == surface.width = 0 \/ surface.height = 0

\* C21 (as claimed): called on a surface of zero width or zero height, the
\* adapter neither throws nor lays anything out: no svg is built and no tick
\* positions a node
C21_ZeroSurfaceDeferred ==
    (vizCalls > 0 /\ ZeroSized) =>
        /\ ~vizThrew
        /\ ~uncaught
        /\ svg = <<>>
        /\ \A i \in 1..Len(positions) : positions[i] = <<>>

\* C24: getNodeColor gives the accent blue to depth 0; to any other node
\* #7FB3D5 when its gender is male and #F5B7B1 when it is female; and to a node
\* of any other or no gender the entry min(depth, 3) of the four-colour ramp,
\* so the last colour from depth 3 on; the fill is always a colour.
C24_NodeColor ==
    surface.adapter = "visualization.js" =>
        \A i \in 1..Len(fills) :
            LET node == networkData.nodes[i]
                gender == IF "gender" \in DOMAIN node THEN node.gender ELSE ""
            IN  /\ node.depth = 0 => fills[i] = "#3498DB"
                /\ (node.depth # 0 /\ gender = "male") => fills[i] = "#7FB3D5"
                /\ (node.depth # 0 /\ gender = "female") => fills[i] = "#F5B7B1"
                /\ (node.depth # 0 /\ gender \notin {"male", "female"}) =>
                      /\ node.depth = 1 => fills[i] = "#2C3E50"
                      /\ node.depth = 2 => fills[i] = "#34495E"
                      /\ node.depth >= 3 => fills[i] = "#7F8C8D"
                /\ fills[i] \in {"#3498DB", "#7FB3D5", "#F5B7B1", "#2C3E50",
                                 "#34495E", "#7F8C8D"}

\* a node beyond the ramp, of a gender that is neither male nor female
C24_Witness ==
    /\ surface.adapter = "visualization.js"
    /\ Len(fills) = 1
    /\ networkData.nodes[1].depth = MaxDepth
    /\ "gender" \in DOMAIN networkData.nodes[1]
    /\ networkData.nodes[1].gender = "other"
    /\ fills[1] = "#7F8C8D"

\* C25 (as claimed): after a tick every node lies inside the surface less the
\* margin of 20, on every surface and for every proposed position
C25_NodesInsideSurface ==
    \A i \in 1..Len(positions) :
        positions[i] # <<>> =>
            /\ 20 <= positions[i][1]
            /\ positions[i][1] <= surface.width - 20
            /\ 20 <= positions[i][2]
            /\ positions[i][2] <= surface.height - 20

(***************************************************************************)
(* The batch scraper: the form of the batch page and the two buttons of    *)
(* the details page (templates/search.html) post to /api/batch/start.  A   *)
(* request is the set of its form fields; `selected` notes the search type *)
(* the form was sent with.                                                 *)
(***************************************************************************)
MaxBatchInFlight == 2

\* what the entityId and query inputs can hold
BatchTexts == {<<>>, <<" ">>, <<"a">>}

\* the values of the options of the maxDepth select (lines 490-494)
DepthOptions == {"0", "1", "2", "3", "4"}

\* {{ entity_id }} as the details template renders it into its script
entity_id == <<"Q", "1">>

\* data.status of the answer; "rejected" is a connection error or a body that
\* is no JSON
Answers == {"started", "error", "other", "rejected"}

MayPost == Cardinality(batchInFlight) < MaxBatchInFlight

\* fetch(url_for('api_batch_start'), {method: 'POST', body})
Post(from, selected, fields) ==
    batchInFlight' = batchInFlight \cup
                         {[from |-> from, selected |-> selected, fields |-> fields]}

\* variant: the form is sent without the two checks of lines 648-656
SubmitBatchFormUnvalidated ==
    /\ MayPost
    /\ \E searchType \in {"entity", "query"}, entityId_ \in BatchTexts,
          query \in BatchTexts, maxDepth \in DepthOptions :
          IF searchType = "entity"
          THEN Post("batchForm", searchType,
                    [max_depth |-> maxDepth, entity_id |-> entityId_])
          ELSE Post("batchForm", searchType,
                    [max_depth |-> maxDepth, query |-> query])
    /\ UNCHANGED batchSettled
    /\ UNCHANGED <<detailVars, loading, errorVisible>>
    /\ UNCHANGED <<dateVars, windowVars, layoutVars, searchVars, gestureVars>>

\* search.html lines 639-672: the submit handler of batchForm
SubmitBatchForm ==
    /\ MayPost
    /\ \E searchType \in {"entity", "query"}, entityId_ \in BatchTexts,
          query \in BatchTexts, maxDepth \in DepthOptions :
          IF \/ searchType = "entity" /\ entityId_ = <<>>
             \/ searchType = "query" /\ query = <<>>
          THEN UNCHANGED batchInFlight
          ELSE IF searchType = "entity"
          THEN Post("batchForm", searchType,
                    [max_depth |-> maxDepth, entity_id |-> entityId_])
          ELSE Post("batchForm", searchType,
                    [max_depth |-> maxDepth, query |-> query])
    /\ UNCHANGED batchSettled
    /\ UNCHANGED <<detailVars, loading, errorVisible>>
    /\ UNCHANGED <<dateVars, windowVars, layoutVars, searchVars, gestureVars>>

\* search.html lines 344-351
startScraping ==
    /\ MayPost
    /\ Post("startScraping", "entity", [max_depth |-> "2", entity_id |-> entity_id])
    /\ UNCHANGED batchSettled
    /\ UNCHANGED <<detailVars, loading, errorVisible>>
    /\ UNCHANGED <<dateVars, windowVars, layoutVars, searchVars, gestureVars>>

\* search.html lines 370-378
refreshPersonData ==
    /\ MayPost
    /\ Post("refreshPersonData", "entity",
            [max_depth |-> "0", entity_id |-> entity_id])
    /\ UNCHANGED batchSettled
    /\ UNCHANGED <<detailVars, loading, errorVisible>>
    /\ UNCHANGED <<dateVars, windowVars, layoutVars, searchVars, gestureVars>>

\* what the then-handler does when data.status === "started": the form reloads
\* the page (line 678), startScraping goes to the batch page (line 356),
\* refreshPersonData reloads after three seconds (lines 383-385)
Started(from) ==
    IF from = "batchForm" THEN "reload"
    ELSE IF from = "startScraping" THEN "batchPage"
    ELSE "reloadLater"

\* lines 673-685, 352-363 and 379-392: the answer to a request arrives.  Any
\* other status, and the catch, end in an alert.  A page that is left takes
\* its pending handlers with it.
BatchSettle ==
    /\ \E req \in batchInFlight, answer \in Answers :
          LET effect == IF answer = "started" THEN Started(req.from) ELSE "none"
          IN  /\ batchSettled' = [from |-> req.from, status |-> answer,
                                  effect |-> effect]
              /\ batchInFlight' = IF effect \in {"reload", "batchPage"} THEN {}
                                  ELSE batchInFlight \ {req}
    /\ UNCHANGED <<detailVars, loading, errorVisible>>
    /\ UNCHANGED <<dateVars, windowVars, layoutVars, searchVars, gestureVars>>

NextBatch ==
    \/ SubmitBatchForm
    \/ startScraping
    \/ refreshPersonData
    \/ BatchSettle

SpecBatch == Init /\ [][NextBatch]_vars

IdFields == {"entity_id", "query"}

\* the integer a max_depth text stands for, -1 for a text that is no number
\* of 0..4
DepthOf(text) ==
    LET decimal == <<"0", "1", "2", "3", "4">>
    IN  IF \E n \in 1..Len(decimal) : decimal[n] = text
        THEN (CHOOSE n \in 1..Len(decimal) : decimal[n] = text) - 1
        ELSE -1

\* C22: every request to /api/batch/start carries exactly one of entity_id and
\* query, with a non-empty value, and a max_depth that is an integer of 0..4;
\* the field it carries is that of the search type selected, so none is sent
\* while that field is empty; and an answer whose status is not "started" is
\* followed by no navigation and no reload.
C22_BatchRequests ==
    /\ \A req \in batchInFlight :
          /\ Cardinality(DOMAIN req.fields \cap IdFields) = 1
          /\ \A f \in DOMAIN req.fields \cap IdFields : req.fields[f] # <<>>
          /\ DOMAIN req.fields \subseteq IdFields \cup {"max_depth"}
          /\ "max_depth" \in DOMAIN req.fields
          /\ DepthOf(req.fields.max_depth) \in 0..4
          /\ req.selected = "entity" <=> "entity_id" \in DOMAIN req.fields
    /\ (batchSettled.from # "none" /\ batchSettled.status # "started")
           => batchSettled.effect = "none"

\* a request of the form by query is pending after an error answer was shown
C22_Witness ==
    /\ \E req \in batchInFlight :
          /\ req.from = "batchForm"
          /\ req.selected = "query"
          /\ req.fields.query = <<" ">>
    /\ batchSettled.from = "batchForm"
    /\ batchSettled.status = "error"
    /\ batchSettled.effect = "none"

(***************************************************************************)
(* Claims about searches whose requests overlap (SpecSearch)               *)
(***************************************************************************)
\* C23 (as claimed): while a request of performSearch is in flight the loading
\* indicator is shown, also when a second search was issued before the first
\* was answered, in whichever order the two settle
C23_IndicatorWhileInFlight == inFlight # {} => loading

\* C27 (as claimed): when every search has settled, the results list and its
\* page and the heading over it are those of the search issued last
C27_LatestSearchShown ==
    (searches >= 2 /\ inFlight = {} /\ display.kind = "panels" /\ display.results) =>
        /\ display.list = lastIssued
        /\ display.heading = lastIssued.query

(***************************************************************************)
(* The page window of the two createPagination functions                   *)
(***************************************************************************)
MaxTotalPages == 10

CreatePaginations == {"part_000", "part_001"}

\* one createPagination is called with a current page and a number of pages
\* above 1: the pages startPage..endPage get a numbered link
ApplyCreatePagination ==
    /\ \E fn \in CreatePaginations, totalPages \in 2..MaxTotalPages :
          \E page \in 1..totalPages :
              windowCase' = [fn |-> fn, currentPage |-> page,
                             totalPages |-> totalPages,
                             window |-> IF fn = "part_000"
                                        THEN Window(page, totalPages)
                                        ELSE Window_legacy(page, totalPages)]
    /\ UNCHANGED <<detailVars, loading, errorVisible>>
    /\ UNCHANGED <<dateVars, layoutVars, batchVars, searchVars, gestureVars>>

NextPagination == ApplyCreatePagination

SpecPagination == Init /\ [][NextPagination]_vars

\* C26 (as claimed): the numbered window lies within 1..totalPages, holds the
\* current page and has min(5, totalPages) pages, also when the current page
\* is within two pages of the first or of the last
C26_PageWindow ==
    windowCase.fn # "none" =>
        /\ windowCase.window \subseteq 1..windowCase.totalPages
        /\ windowCase.currentPage \in windowCase.window
        /\ Cardinality(windowCase.window) = Min(5, windowCase.totalPages)

(***************************************************************************)
(* Further claims about the adapter, the builder and the details chain     *)
(***************************************************************************)
\* the circles of the last call carry drag handlers
HandlersAttached == vizCalls > 0 /\ Len(networkData.nodes) > 0

\* C28 (as claimed): the simulation the drag handlers of a call reheat and
\* cool is defined and is the one that call created, on the first call and on
\* every later one (checked under SpecViz)
C28_DragBindsOwnSimulation ==
    HandlersAttached => dragSim \notin {"undefined", "stale"}

\* C29 (as claimed): no link of a graph built from a grouped payload joins a
\* node to itself, also when the central person's id is listed in one of the
\* four arrays (checked under SpecGrouped)
C29_NoSelfLinks ==
    GraphBuilt =>
        \A k \in 1..Len(networkData.links) :
            networkData.links[k].source # networkData.links[k].target

\* C30 (as claimed): once the chain of details.js has settled exactly one of
\* the person panel and the error panel is shown: the person panel when
\* nothing was caught, the error panel when the detail step or the family step
\* failed (checked under SpecDetails)
C30_ExactlyOnePanel ==
    Settled =>
        /\ personVisible # errorVisible
        /\ Happened("catch") => (errorVisible /\ ~personVisible)
        /\ ~Happened("catch") => (personVisible /\ ~errorVisible)

====
